---- MODULE Spec2Model ----
(***************************************************************************)
(* A model of gunicorn/http/message.py: the HTTP/1.x request parser        *)
(* (Message / Request).                                                    *)
(*                                                                         *)
(* Python str and bytes values are tuples of characters, a character being *)
(* a one-character string ("sup2" stands for the single Latin-1 character  *)
(* U+00B2, SUPERSCRIPT TWO).  Conversions (lower, upper, strip, split,     *)
(* isnumeric, int, regular-expression matching) are computed character by  *)
(* character.                                                              *)
(*                                                                         *)
(* There is one specification per operation of the module:                 *)
(*   SpecBody     Request.set_body_reader (Message.set_body_reader and the *)
(*                request override), one step per loop iteration           *)
(*   SpecClose    Message.should_close                                     *)
(*   SpecLine     Request.parse_request_line                               *)
(*   SpecHeaders  Message.__init__ limits and Message.parse_headers, one   *)
(*                step per iteration of the outer while loop               *)
(*   SpecRequest  Request.__init__ on what a peer sends: Request.parse     *)
(*                with get_data, read_line, proxy_protocol, and the three  *)
(*                operations above as it calls them                        *)
(*   SpecReadLine Request.read_line on a source that never runs dry, one   *)
(*                step per iteration of its loop (SpecReadLineFair: with   *)
(*                the loop always going on)                                *)
(***************************************************************************)
EXTENDS Integers, Sequences, FiniteSets, TLC

VARIABLES
    pc,                 \* position of the running operation
    err,                \* the exception raised, "none" when none
    headers,            \* self.headers: sequence of <<name, value>>
    version,            \* self.version: <<major, minor>>, None before parsing
    tolerate,           \* cfg.tolerate_dangerous_framing
    must_close,         \* self.must_close
    body,               \* self.body: the reader chosen, None before
    idx,                \* set_body_reader: index of the header the for loop is at
    chunked,            \* set_body_reader: local chunked
    content_length,     \* set_body_reader: local content_length (None or a str)
    close_result,       \* value returned by should_close, None before the call
    line_bytes,         \* parse_request_line: its argument
    uri_splits,         \* whether split_request_uri accepts the target (external)
    method,             \* self.method
    uri,                \* self.uri
    cfg,                \* the configuration: a record of the settings read
    peer_addr,          \* self.peer_addr: <<"tuple", <<host, port>>>> or <<"str", path>>
    limit_request_fields,       \* self.limit_request_fields
    limit_request_field_size,   \* self.limit_request_field_size
    max_buffer_headers,         \* self.max_buffer_headers
    scheme,             \* self.scheme
    data,               \* parse_headers: its argument
    lines,              \* parse_headers: local lines
    headers_local,      \* parse_headers: local headers
    scheme_header,      \* parse_headers: local scheme_header
    secure_scheme_headers,      \* parse_headers: local secure_scheme_headers
    source,             \* the unreader: the bytes the peer sends, in order
    pulled,             \* the unreader: the bytes its read() has returned so far
    pushed,             \* the unreader: the bytes given back to it with unread()
    buf,                \* parse, read_line: the contents of buf
    rbuf,               \* parse: local rbuf
    line,               \* parse: local line
    caller,             \* read_line: the place in parse it returns to
    limit_request_line, \* self.limit_request_line
    req_number,         \* self.req_number
    proxy_protocol_info,        \* self.proxy_protocol_info
    err_arg             \* the argument of the exception raised

vars == <<pc, err, headers, version, tolerate, must_close, body, idx, chunked,
          content_length, close_result, line_bytes, uri_splits, method, uri,
          cfg, peer_addr, limit_request_fields, limit_request_field_size,
          max_buffer_headers, scheme, data, lines, headers_local, scheme_header,
          secure_scheme_headers, source, pulled, pushed, buf, rbuf, line,
          caller, limit_request_line, req_number, proxy_protocol_info, err_arg>>

bodyVars == <<tolerate, body, idx, chunked, content_length>>

lineVars == <<line_bytes, uri_splits, method, uri>>

\* the variables of the parsing steps, which set_body_reader and should_close
\* leave alone
hdrVars == <<cfg, peer_addr, limit_request_fields, limit_request_field_size,
             max_buffer_headers, scheme, data, lines, headers_local, scheme_header,
             secure_scheme_headers>>

\* the variables of Request.__init__ and Request.parse, which the steps they
\* call leave alone
ioVars == <<source, pulled, pushed, buf, rbuf, line, caller,
            limit_request_line, req_number, proxy_protocol_info, err_arg>>

parseVars == <<lineVars, hdrVars, ioVars>>

\* the values of the variables an operation does not use
IdleLine == line_bytes = <<"None">> /\ uri_splits = TRUE /\ method = <<"None">> /\ uri = <<"None">>

IdleHeaders ==
    /\ cfg = <<"None">>
    /\ peer_addr = <<"None">>
    /\ limit_request_fields = 0
    /\ limit_request_field_size = 0
    /\ max_buffer_headers = 0
    /\ scheme = "http"
    /\ data = <<>>
    /\ lines = <<>>
    /\ headers_local = <<>>
    /\ scheme_header = FALSE
    /\ secure_scheme_headers = {}

IdleIO ==
    /\ source = <<>>
    /\ pulled = <<>>
    /\ pushed = <<>>
    /\ buf = <<>>
    /\ rbuf = <<>>
    /\ line = <<>>
    /\ caller = "none"
    /\ limit_request_line = 0
    /\ req_number = 1
    /\ proxy_protocol_info = <<"None">>
    /\ err_arg = <<"None">>

IdleBody ==
    /\ tolerate = FALSE
    /\ body = <<"None">>
    /\ idx = 1
    /\ chunked = FALSE
    /\ content_length = <<"None">>

-----------------------------------------------------------------------------
(* Bounds of the model *)

\* longest header list given to set_body_reader and should_close
MaxHeaders == 3

\* longest run of one letter in a method token given to parse_request_line
MaxMethodRun == 21

\* most lines in a header block given to parse_headers
MaxLines == 3

\* most bytes in one chunk of the endless source given to read_line
MaxChunk == 2

\* largest line limit given to read_line on the endless source
MaxLimit == 2

-----------------------------------------------------------------------------
(* Characters and the str/bytes methods the parser uses *)

None == <<"None">>

UpperLetters == <<"A","B","C","D","E","F","G","H","I","J","K","L","M",
                  "N","O","P","Q","R","S","T","U","V","W","X","Y","Z">>

LowerLetters == <<"a","b","c","d","e","f","g","h","i","j","k","l","m",
                  "n","o","p","q","r","s","t","u","v","w","x","y","z">>

DecDigits == <<"0","1","2","3","4","5","6","7","8","9">>

InSeq(seq, c) == \E i \in 1..Len(seq) : seq[i] = c

Pos(seq, c) == CHOOSE i \in 1..Len(seq) : seq[i] = c

\* the code point of a character
Ord(c) ==
    IF InSeq(UpperLetters, c) THEN 64 + Pos(UpperLetters, c)
    ELSE IF InSeq(LowerLetters, c) THEN 96 + Pos(LowerLetters, c)
    ELSE IF InSeq(DecDigits, c) THEN 47 + Pos(DecDigits, c)
    ELSE CASE c = "\t" -> 9   [] c = "\n" -> 10  [] c = "\r" -> 13
           [] c = " "  -> 32  [] c = "!"  -> 33  [] c = "$"  -> 36
           [] c = "("  -> 40  [] c = ")"  -> 41  [] c = "+"  -> 43
           [] c = ","  -> 44  [] c = "-"  -> 45  [] c = "."  -> 46
           [] c = "/"  -> 47  [] c = ":"  -> 58  [] c = ";"  -> 59
           [] c = "="  -> 61  [] c = "?"  -> 63  [] c = "@"  -> 64
           [] c = "["  -> 91  [] c = "]"  -> 93  [] c = "_"  -> 95
           [] c = "{"  -> 123 [] c = "}"  -> 125 [] c = "~"  -> 126
           [] c = "sup2" -> 178

\* str.lower / str.upper on one character
LowerChar(c) == IF InSeq(UpperLetters, c) THEN LowerLetters[Pos(UpperLetters, c)] ELSE c

UpperChar(c) == IF InSeq(LowerLetters, c) THEN UpperLetters[Pos(LowerLetters, c)] ELSE c

Lower(s) == [i \in 1..Len(s) |-> LowerChar(s[i])]

Upper(s) == [i \in 1..Len(s) |-> UpperChar(s[i])]

\* the characters str.strip() and bytes.split(None) treat as whitespace
IsSpace(c) == Ord(c) \in {9, 10, 11, 12, 13, 32}

RECURSIVE LStrip(_)
LStrip(s) == IF s # <<>> /\ IsSpace(Head(s)) THEN LStrip(Tail(s)) ELSE s

RECURSIVE RStrip(_)
RStrip(s) ==
    IF s # <<>> /\ IsSpace(s[Len(s)]) THEN RStrip(SubSeq(s, 1, Len(s) - 1)) ELSE s

Strip(s) == LStrip(RStrip(s))

\* str.isnumeric: every character has a numeric value and there is at least one;
\* besides 0-9 Latin-1 has the superscripts and the vulgar fractions
IsNumericChar(c) == Ord(c) \in 48..57 \/ Ord(c) \in {178, 179, 185, 188, 189, 190}

IsNumeric(s) == s # <<>> /\ \A i \in 1..Len(s) : IsNumericChar(s[i])

\* int(s) raises ValueError unless s is an optional sign and decimal digits
IsInt(s) ==
    LET d == IF s # <<>> /\ Head(s) \in {"+", "-"} THEN Tail(s) ELSE s
    IN  d # <<>> /\ \A i \in 1..Len(d) : Ord(d[i]) \in 48..57

RECURSIVE NatOf(_)
NatOf(d) ==
    IF d = <<>> THEN 0
    ELSE 10 * NatOf(SubSeq(d, 1, Len(d) - 1)) + (Ord(d[Len(d)]) - 48)

Int_(s) ==
    IF Head(s) = "-" THEN 0 - NatOf(Tail(s))
    ELSE IF Head(s) = "+" THEN NatOf(Tail(s))
    ELSE NatOf(s)

\* a comparison that looks at the major number only
VersionLT_MajorOnly(a, b) == a[1] < b[1]

\* tuple comparison a < b and a <= b of two (major, minor) pairs
VersionLT(a, b) == a[1] < b[1] \/ (a[1] = b[1] /\ a[2] < b[2])

VersionLE(a, b) == a[1] < b[1] \/ (a[1] = b[1] /\ a[2] <= b[2])

-----------------------------------------------------------------------------
(* Header names and values *)

CONTENT_LENGTH == <<"C","O","N","T","E","N","T","-","L","E","N","G","T","H">>

TRANSFER_ENCODING ==
    <<"T","R","A","N","S","F","E","R","-","E","N","C","O","D","I","N","G">>

CONNECTION == <<"C","O","N","N","E","C","T","I","O","N">>

HOST == <<"H","O","S","T">>

str_chunked == <<"c","h","u","n","k","e","d">>

str_identity == <<"i","d","e","n","t","i","t","y">>

str_close == <<"c","l","o","s","e">>

str_keep_alive == <<"k","e","e","p","-","a","l","i","v","e">>

\* the body readers of gunicorn.http.body
ChunkedReader == <<"ChunkedReader">>

LengthReader(n) == <<"LengthReader", n>>

EOFReader == <<"EOFReader">>

-----------------------------------------------------------------------------
(* Inputs of set_body_reader *)

\* Content-Length values: "10", "7", "", "-1", "+7", "1x" and superscript two
ContentLengthValues ==
    { <<"1","0">>, <<"7">>, <<>>, <<"-","1">>, <<"+","7">>, <<"1","x">>, <<"sup2">> }

\* Transfer-Encoding values: "chunked", "Chunked", "identity", "" and "gzip"
TransferEncodingValues ==
    { str_chunked, <<"C","h","u","n","k","e","d">>, str_identity, <<>>,
      <<"g","z","i","p">> }

BodyFields ==
    ({CONTENT_LENGTH} \X ContentLengthValues)
    \cup ({TRANSFER_ENCODING} \X TransferEncodingValues)
    \cup {<<HOST, <<"x">>>>}

\* HTTP/0.9, HTTP/1.0, HTTP/1.1 and HTTP/2.0
Versions == { <<0, 9>>, <<1, 0>>, <<1, 1>>, <<2, 0>> }

SeqsUpTo(S, n) == UNION { [1..k -> S] : k \in 0..n }

-----------------------------------------------------------------------------
(* Message.set_body_reader and Request.set_body_reader *)

Raise(e) == pc' = "error" /\ err' = e

\* a force_close that sets nothing
force_close_Nothing == must_close' = must_close

\* Message.force_close
force_close == must_close' = TRUE

\* an unknown coding handled like the empty one (refused only without tolerance)
TECase_UnknownAsEmpty(value) ==
    IF Lower(value) = str_chunked THEN "chunked"
    ELSE IF Lower(value) = str_identity THEN "identity"
    ELSE "empty"

\* which branch of the Transfer-Encoding chain a value takes
TECase(value) ==
    IF Lower(value) = str_chunked THEN "chunked"
    ELSE IF Lower(value) = str_identity THEN "identity"
    ELSE IF Lower(value) = <<>> THEN "empty"
    ELSE "other"

\* a second Content-Length refused only when it differs from the first
DuplicateContentLength_IfDifferent(cl, value) == cl # None /\ cl # value

\* the second Content-Length of a list is refused
DuplicateContentLength(cl, value) == cl # None

\* int() alone, without the isnumeric() test before it
ContentLengthAccepted_IntOnly(cl) == IsInt(cl) /\ Int_(cl) >= 0

\* the Content-Length test of the elif branch: isnumeric(), then int() without
\* ValueError, then >= 0
ContentLengthAccepted(cl) == IsNumeric(cl) /\ IsInt(cl) /\ Int_(cl) >= 0

InitBody ==
    /\ headers \in SeqsUpTo(BodyFields, MaxHeaders)
    /\ version \in Versions
    /\ tolerate \in BOOLEAN
    /\ must_close = FALSE
    /\ body = None
    /\ idx = 1
    /\ chunked = FALSE
    /\ content_length = None
    /\ pc = "scan"
    /\ err = "none"
    /\ close_result = None
    /\ IdleLine
    /\ IdleHeaders
    /\ IdleIO

\* loop body, name == "CONTENT-LENGTH"
ScanContentLength ==
    /\ pc = "scan"
    /\ idx <= Len(headers)
    /\ headers[idx][1] = CONTENT_LENGTH
    /\ IF DuplicateContentLength(content_length, headers[idx][2])
       THEN /\ Raise("InvalidHeader(CONTENT-LENGTH)")
            /\ UNCHANGED <<idx, content_length>>
       ELSE /\ content_length' = headers[idx][2]
            /\ idx' = idx + 1
            /\ UNCHANGED <<pc, err>>
    /\ UNCHANGED <<headers, version, tolerate, must_close, body, chunked, close_result>>
    /\ UNCHANGED parseVars

\* the tests of lines 142 and 148, never taken
AlreadyChunked_Never(c) == FALSE

\* "if chunked:" in the chunked and the identity branch
AlreadyChunked(c) == c

\* loop body, name == "TRANSFER-ENCODING"
ScanTransferEncoding ==
    /\ pc = "scan"
    /\ idx <= Len(headers)
    /\ headers[idx][1] = TRANSFER_ENCODING
    /\ LET case == TECase(headers[idx][2]) IN
       CASE case = "chunked" ->
              IF AlreadyChunked(chunked)
              THEN /\ Raise("InvalidHeader(TRANSFER-ENCODING)")
                   /\ UNCHANGED <<idx, chunked, must_close>>
              ELSE /\ chunked' = TRUE
                   /\ idx' = idx + 1
                   /\ UNCHANGED <<pc, err, must_close>>
         [] case = "identity" ->
              IF AlreadyChunked(chunked)
              THEN /\ Raise("InvalidHeader(TRANSFER-ENCODING)")
                   /\ UNCHANGED <<idx, chunked, must_close>>
              ELSE /\ idx' = idx + 1
                   /\ UNCHANGED <<pc, err, chunked, must_close>>
         [] case = "empty" ->
              /\ force_close
              /\ IF ~tolerate
                 THEN /\ Raise("UnsupportedTransferCoding")
                      /\ UNCHANGED <<idx, chunked>>
                 ELSE /\ idx' = idx + 1
                      /\ UNCHANGED <<pc, err, chunked>>
         [] OTHER ->
              /\ force_close
              /\ Raise("UnsupportedTransferCoding")
              /\ UNCHANGED <<idx, chunked>>
    /\ UNCHANGED <<headers, version, tolerate, body, content_length, close_result>>
    /\ UNCHANGED parseVars

\* loop body, any other header name
ScanOther ==
    /\ pc = "scan"
    /\ idx <= Len(headers)
    /\ headers[idx][1] \notin {CONTENT_LENGTH, TRANSFER_ENCODING}
    /\ idx' = idx + 1
    /\ UNCHANGED <<pc, err, headers, version, tolerate, must_close, body, chunked,
                   content_length, close_result>>
    /\ UNCHANGED parseVars

\* the chunked branch without its Content-Length test
ResolveChunked_NoContentLengthTest ==
    /\ pc = "scan"
    /\ idx > Len(headers)
    /\ chunked
    /\ LET old == VersionLT(version, <<1, 1>>)
       IN  /\ must_close' = (must_close \/ old)
           /\ IF old /\ ~tolerate
              THEN Raise("InvalidHeader(TRANSFER-ENCODING)") /\ UNCHANGED body
              ELSE /\ body' = ChunkedReader
                   /\ pc' = "override"
                   /\ UNCHANGED err
    /\ UNCHANGED <<headers, version, tolerate, idx, chunked, content_length, close_result>>
    /\ UNCHANGED parseVars

\* after the loop: if chunked
ResolveChunked ==
    /\ pc = "scan"
    /\ idx > Len(headers)
    /\ chunked
    /\ LET old == VersionLT(version, <<1, 1>>)
           both == content_length # None
       IN  /\ must_close' = (must_close \/ old \/ both)
           /\ IF old /\ ~tolerate
              THEN Raise("InvalidHeader(TRANSFER-ENCODING)") /\ UNCHANGED body
              ELSE IF both /\ ~tolerate
              THEN Raise("InvalidHeader(CONTENT-LENGTH)") /\ UNCHANGED body
              ELSE /\ body' = ChunkedReader
                   /\ pc' = "override"
                   /\ UNCHANGED err
    /\ UNCHANGED <<headers, version, tolerate, idx, chunked, content_length, close_result>>
    /\ UNCHANGED parseVars

\* after the loop: elif content_length is not None
ResolveLength ==
    /\ pc = "scan"
    /\ idx > Len(headers)
    /\ ~chunked
    /\ content_length # None
    /\ IF ContentLengthAccepted(content_length)
       THEN /\ content_length' = <<"int", Int_(content_length)>>
            /\ body' = LengthReader(Int_(content_length))
            /\ pc' = "override"
            /\ UNCHANGED err
       ELSE Raise("InvalidHeader(CONTENT-LENGTH)") /\ UNCHANGED <<body, content_length>>
    /\ UNCHANGED <<headers, version, tolerate, must_close, idx, chunked, close_result>>
    /\ UNCHANGED parseVars

\* after the loop: else
ResolveEOF ==
    /\ pc = "scan"
    /\ idx > Len(headers)
    /\ ~chunked
    /\ content_length = None
    /\ body' = EOFReader
    /\ pc' = "override"
    /\ UNCHANGED <<err, headers, version, tolerate, must_close, idx, chunked,
                   content_length, close_result>>
    /\ UNCHANGED parseVars

\* a request that keeps the reader the base class chose
RequestOverride_Keep ==
    /\ pc = "override"
    /\ pc' = "done"
    /\ UNCHANGED <<err, headers, version, tolerate, must_close, body, idx, chunked,
                   content_length, close_result>>
    /\ UNCHANGED parseVars

\* Request.set_body_reader, after super().set_body_reader() returned
RequestOverride ==
    /\ pc = "override"
    /\ body' = IF body = EOFReader THEN LengthReader(0) ELSE body
    /\ pc' = "done"
    /\ UNCHANGED <<err, headers, version, tolerate, must_close, idx, chunked,
                   content_length, close_result>>
    /\ UNCHANGED parseVars

NextBody ==
    \/ ScanContentLength
    \/ ScanTransferEncoding
    \/ ScanOther
    \/ ResolveChunked
    \/ ResolveLength
    \/ ResolveEOF
    \/ RequestOverride

SpecBody == InitBody /\ [][NextBody]_vars

-----------------------------------------------------------------------------
(* Properties of set_body_reader *)

\* set_body_reader has returned or raised
Finished == pc \in {"done", "error"}

\* the for loop went through the whole header list without raising
ScanCompleted == idx > Len(headers)

ContentLengthAt == { i \in 1..Len(headers) : headers[i][1] = CONTENT_LENGTH }

TransferEncodingAt == { i \in 1..Len(headers) : headers[i][1] = TRANSFER_ENCODING }

HasContentLength == ContentLengthAt # {}

HasChunkedTE == \E i \in TransferEncodingAt : Lower(headers[i][2]) = str_chunked

HasEmptyTE == \E i \in TransferEncodingAt : headers[i][2] = <<>>

IsOtherCoding(v) == Lower(v) \notin {str_chunked, str_identity, <<>>}

HasOtherTE == \E i \in TransferEncodingAt : IsOtherCoding(headers[i][2])

\* the version is below (1, 1)
Below11 == version[1] = 0 \/ version = <<1, 0>>

\* C1: a header list with a chunked Transfer-Encoding and a Content-Length, in
\* any order, is refused when tolerate_dangerous_framing is off; when it is on
\* and the scan refuses nothing, the reader is the chunked one and must_close
\* is set.
C1_ChunkedWithContentLength ==
    (Finished /\ HasChunkedTE /\ HasContentLength) =>
        /\ ~tolerate => (pc = "error" /\ body = None)
        /\ (tolerate /\ ScanCompleted) =>
               (pc = "done" /\ body = ChunkedReader /\ must_close)
        /\ pc = "done" => (body = ChunkedReader /\ must_close)

C1_Witness ==
    /\ pc = "done"
    /\ tolerate
    /\ version = <<1, 1>>
    /\ HasChunkedTE
    /\ HasContentLength
    /\ body = ChunkedReader
    /\ must_close

\* C2: a header list with two or more CONTENT-LENGTH entries is never accepted,
\* whatever the values, the toggle, the version and the other headers are.
C2_TwoContentLengthsRefused ==
    (Finished /\ Cardinality(ContentLengthAt) >= 2) => (pc = "error" /\ body = None)

C2_Witness ==
    /\ pc = "error"
    /\ err = "InvalidHeader(CONTENT-LENGTH)"
    /\ tolerate
    /\ Len(headers) = 3
    /\ headers[1] = <<CONTENT_LENGTH, <<"7">>>>
    /\ headers[3] = <<CONTENT_LENGTH, <<"7">>>>
    /\ idx = 3

\* the loop has come to header j and run its body
Reached(j) == idx > j \/ (idx = j /\ pc = "error")

\* C3: once the scan has run on a Transfer-Encoding header whose value is none
\* of chunked, identity and empty, must_close is set and the outcome is
\* UnsupportedTransferCoding, with the toggle on or off; a message carrying
\* such a header never gets a body reader.
C3_UnknownCodingRefused ==
    /\ \A j \in TransferEncodingAt :
           (IsOtherCoding(headers[j][2]) /\ Reached(j)) =>
               /\ pc = "error"
               /\ idx = j
               /\ err = "UnsupportedTransferCoding"
               /\ must_close
    /\ HasOtherTE => body = None

C3_Witness ==
    /\ pc = "error"
    /\ err = "UnsupportedTransferCoding"
    /\ tolerate
    /\ must_close
    /\ idx = 2
    /\ Len(headers) >= 2
    /\ headers[2] = <<TRANSFER_ENCODING, <<"g","z","i","p">>>>

\* the outcome C4 names for chunked on a version below (1, 1)
ChunkedOldVersionOutcome ==
    /\ ~tolerate =>
           (pc = "error" /\ err = "InvalidHeader(TRANSFER-ENCODING)" /\ must_close)
    /\ tolerate => (pc = "done" /\ body = ChunkedReader /\ must_close)

\* C4 as stated: for a version below (1,1) and headers containing a chunked
\* Transfer-Encoding, set_body_reader sets must_close and raises
\* InvalidHeader(TRANSFER-ENCODING) with the toggle off, and chooses the chunked
\* reader with must_close set with the toggle on.
C4_AsStated ==
    (Finished /\ Below11 /\ HasChunkedTE) => ChunkedOldVersionOutcome

\* C4 amended: the same, for the header lists the scan goes through without
\* raising.
C4_ChunkedOldVersion ==
    (Finished /\ Below11 /\ HasChunkedTE /\ ScanCompleted) => ChunkedOldVersionOutcome

C4_Witness ==
    /\ pc = "error"
    /\ err = "InvalidHeader(TRANSFER-ENCODING)"
    /\ version = <<1, 0>>
    /\ ~tolerate
    /\ ScanCompleted
    /\ must_close
    /\ HasChunkedTE

\* C5: a constructed Request never has the EOFReader; without a Content-Length
\* and without a chunked Transfer-Encoding its reader is LengthReader(0).
C5_NeverReadUntilClose ==
    pc = "done" =>
        /\ body # EOFReader
        /\ (~HasContentLength /\ ~HasChunkedTE) => body = LengthReader(0)

C5_Witness ==
    /\ pc = "done"
    /\ body = LengthReader(0)
    /\ ~HasContentLength
    /\ \E i \in TransferEncodingAt : headers[i][2] = str_identity
    /\ \E i \in TransferEncodingAt : headers[i][2] = <<>>

\* a value made of the decimal digits 0-9 only, and the number it denotes
AllDecimalDigits(v) == v # <<>> /\ \A i \in 1..Len(v) : InSeq(DecDigits, v[i])

RECURSIVE DecimalValue(_)
DecimalValue(v) ==
    IF v = <<>> THEN 0
    ELSE 10 * DecimalValue(SubSeq(v, 1, Len(v) - 1)) + (Pos(DecDigits, v[Len(v)]) - 1)

TheContentLength == headers[CHOOSE i \in ContentLengthAt : TRUE][2]

\* the outcome C9 names for a single Content-Length
SingleContentLengthOutcome ==
    IF AllDecimalDigits(TheContentLength)
    THEN pc = "done" /\ body = LengthReader(DecimalValue(TheContentLength))
    ELSE pc = "error" /\ err = "InvalidHeader(CONTENT-LENGTH)" /\ body = None

\* C9 as stated: with exactly one Content-Length and no chunked
\* Transfer-Encoding, a value of decimal digits gives LengthReader(n) and any
\* other value raises InvalidHeader(CONTENT-LENGTH) with no reader set.
C9_AsStated ==
    (Finished /\ Cardinality(ContentLengthAt) = 1 /\ ~HasChunkedTE)
        => SingleContentLengthOutcome

\* C9 amended: the same, for header lists with no Transfer-Encoding header
\* that the scan refuses (an unknown coding, or the empty one with the toggle
\* off).
C9_SingleContentLength ==
    (Finished /\ Cardinality(ContentLengthAt) = 1 /\ ~HasChunkedTE
        /\ ~HasOtherTE /\ (HasEmptyTE => tolerate))
        => SingleContentLengthOutcome

C9_Witness ==
    /\ pc = "done"
    /\ Cardinality(ContentLengthAt) = 1
    /\ TheContentLength = <<"1", "0">>
    /\ body = LengthReader(10)
    /\ \E i \in TransferEncodingAt : headers[i][2] = str_identity

\* the header the scan is at is a Transfer-Encoding of the coding given
ScanAt(coding) ==
    /\ pc = "scan"
    /\ idx <= Len(headers)
    /\ headers[idx][1] = TRANSFER_ENCODING
    /\ Lower(headers[idx][2]) = coding

\* a chunked Transfer-Encoding comes before position i of the list
ChunkedBefore(i) ==
    \E j \in 1..(i - 1) :
        headers[j][1] = TRANSFER_ENCODING /\ Lower(headers[j][2]) = str_chunked

\* C15: when the scan meets a chunked or an identity Transfer-Encoding after an
\* earlier chunked one it raises InvalidHeader(TRANSFER-ENCODING), whatever
\* tolerate_dangerous_framing is; an identity one met before any chunked one
\* changes nothing; a list with identity before chunked that set_body_reader
\* accepts gets the chunked reader.
C15_StackedCodings ==
    /\ [][((ScanAt(str_chunked) \/ ScanAt(str_identity)) /\ ChunkedBefore(idx)) =>
            (pc' = "error" /\ err' = "InvalidHeader(TRANSFER-ENCODING)")]_vars
    /\ [][(ScanAt(str_identity) /\ ~ChunkedBefore(idx)) =>
            /\ idx' = idx + 1
            /\ UNCHANGED <<pc, err, chunked, content_length, must_close, body>>]_vars
    /\ []((pc = "done"
            /\ \E i \in TransferEncodingAt :
                   Lower(headers[i][2]) = str_chunked
                       /\ \E j \in 1..(i - 1) : headers[j] = <<TRANSFER_ENCODING, str_identity>>)
           => body = ChunkedReader)

\* identity after chunked refused with the tolerance on
C15_Witness ==
    /\ err = "InvalidHeader(TRANSFER-ENCODING)"
    /\ tolerate
    /\ idx <= Len(headers)
    /\ headers[idx] = <<TRANSFER_ENCODING, str_identity>>
    /\ ChunkedBefore(idx)

\* C20: must_close is false when set_body_reader starts and no step resets it
\* to false; with tolerate_dangerous_framing off it is set only in steps that
\* raise, so it is false on every message accepted; with the toggle on an
\* accepted message has must_close exactly when its headers hold an empty
\* Transfer-Encoding, or a chunked one with a version below (1, 1), or a
\* chunked one with a Content-Length.
C20_MustClose ==
    /\ [][must_close => must_close']_vars
    /\ []((pc = "scan" /\ idx = 1) => ~must_close)
    /\ []((must_close /\ ~tolerate) => pc = "error")
    /\ []((pc = "done" /\ ~tolerate) => ~must_close)
    /\ []((pc = "done" /\ tolerate) =>
            (must_close <=>
                \/ HasEmptyTE
                \/ HasChunkedTE /\ Below11
                \/ HasChunkedTE /\ HasContentLength))

\* a message with an empty Transfer-Encoding and no chunked one, accepted with
\* the toggle on
C20_Witness ==
    /\ pc = "done"
    /\ tolerate
    /\ must_close
    /\ HasEmptyTE
    /\ ~HasChunkedTE

-----------------------------------------------------------------------------
(* Message.should_close *)

\* Connection values: "close", "Close", "keep-alive", "Keep-Alive", "upgrade".
\* parse_headers strips every value, so none has surrounding whitespace.
ConnectionValues ==
    { str_close, <<"C","l","o","s","e">>, str_keep_alive,
      <<"K","e","e","p","-","A","l","i","v","e">>, <<"u","p","g","r","a","d","e">>,
      <<" ","c","l","o","s","e","\t">> }

CloseFields == ({CONNECTION} \X ConnectionValues) \cup {<<HOST, <<"x">>>>}

\* the value compared without lower()
ConnectionValue_NoLower(v) == Strip(v)

\* v.lower().strip()
ConnectionValue(v) == Strip(Lower(v))

\* the for loop over self.headers and the return that follows it
RECURSIVE ConnectionScan(_, _)
ConnectionScan(hs, ver) ==
    IF hs = <<>> THEN VersionLE(ver, <<1, 0>>)
    ELSE IF Head(hs)[1] = CONNECTION
         THEN IF ConnectionValue(Head(hs)[2]) = str_close THEN TRUE
              ELSE IF ConnectionValue(Head(hs)[2]) = str_keep_alive THEN FALSE
              ELSE VersionLE(ver, <<1, 0>>)
         ELSE ConnectionScan(Tail(hs), ver)

\* should_close without the test of must_close
should_close_NoMustClose(mc, hs, ver) == ConnectionScan(hs, ver)

should_close(mc, hs, ver) == IF mc THEN TRUE ELSE ConnectionScan(hs, ver)

\* a parsed message; force_close is public, so must_close may be set or not
InitClose ==
    /\ headers \in SeqsUpTo(CloseFields, MaxHeaders)
    /\ version \in Versions
    /\ must_close \in BOOLEAN
    /\ close_result = None
    /\ pc = "query"
    /\ err = "none"
    /\ IdleBody
    /\ IdleLine
    /\ IdleHeaders
    /\ IdleIO

ShouldClose ==
    /\ pc = "query"
    /\ close_result' = should_close(must_close, headers, version)
    /\ pc' = "returned"
    /\ UNCHANGED <<err, headers, version, must_close>>
    /\ UNCHANGED bodyVars
    /\ UNCHANGED parseVars

NextClose == ShouldClose

SpecClose == InitClose /\ [][NextClose]_vars

ConnectionAt == { i \in 1..Len(headers) : headers[i][1] = CONNECTION }

IsCloseValue(v) == v \in { str_close, <<"C","l","o","s","e">> }

\* C6 as stated: should_close is true for every message with a CONNECTION
\* header of value close anywhere in the list, for every version and whatever
\* the other headers, other CONNECTION headers included.
C6_AsStated ==
    (pc = "returned" /\ \E i \in ConnectionAt : IsCloseValue(headers[i][2]))
        => close_result = TRUE

\* C6 amended: should_close is true for every message whose first CONNECTION
\* header has the value close, for every version and whatever headers follow.
C6_FirstConnectionClose ==
    (pc = "returned" /\ ConnectionAt # {}
        /\ IsCloseValue(headers[CHOOSE i \in ConnectionAt :
                                    \A j \in ConnectionAt : i <= j][2]))
        => close_result = TRUE

C6_Witness ==
    /\ pc = "returned"
    /\ close_result = TRUE
    /\ ~must_close
    /\ version = <<1, 1>>
    /\ Len(headers) = 3
    /\ headers[1][1] = HOST
    /\ headers[2] = <<CONNECTION, <<"C","l","o","s","e">>>>
    /\ headers[3] = <<CONNECTION, str_keep_alive>>

\* the value of the first CONNECTION header, trimmed and in lower case; None
\* when the list has none
FirstConnection ==
    IF ConnectionAt = {} THEN None
    ELSE Strip(Lower(headers[CHOOSE i \in ConnectionAt : \A j \in ConnectionAt : i <= j][2]))

\* the decision of C16
CloseDecision ==
    IF must_close THEN TRUE
    ELSE IF FirstConnection = <<"c","l","o","s","e">> THEN TRUE
    ELSE IF FirstConnection = <<"k","e","e","p","-","a","l","i","v","e">> THEN FALSE
    ELSE version[1] < 1 \/ (version[1] = 1 /\ version[2] = 0)

\* C16: should_close returns true when must_close is set; otherwise what the
\* first CONNECTION header says when its trimmed lower-cased value is close
\* (true) or keep-alive (false); otherwise, also with no CONNECTION header,
\* true iff version <= (1, 0).
C16_CloseDecision ==
    pc = "returned" =>
        /\ close_result = CloseDecision
        /\ (~must_close /\ ConnectionAt = {} /\ version = <<1, 1>>) => close_result = FALSE

\* must_close wins over Connection: keep-alive on HTTP/1.1
C16_Witness ==
    /\ pc = "returned"
    /\ must_close
    /\ version = <<1, 1>>
    /\ FirstConnection = str_keep_alive
    /\ close_result = TRUE

-----------------------------------------------------------------------------
(* Request.parse_request_line *)

\* METH_RE = [A-Z0-9$-_.]{3,20}: the repetition bounds
METH_RE_MIN == 3

METH_RE_MAX == 20

\* the character class of METH_RE: the ranges A-Z, 0-9 and $-_, and the dot
METH_RE_class(c) ==
    \/ Ord(c) \in Ord("A")..Ord("Z")
    \/ Ord(c) \in Ord("0")..Ord("9")
    \/ Ord(c) \in Ord("$")..Ord("_")
    \/ c = "."

\* \d of VERSION_RE
IsDigit(c) == Ord(c) \in Ord("0")..Ord("9")

\* the number of TRUE entries at the start of a sequence of booleans
RECURSIVE Leading(_)
Leading(flags) ==
    IF flags # <<>> /\ Head(flags) THEN 1 + Leading(Tail(flags)) ELSE 0

\* the lengths of the longest prefixes of s made of METH_RE's class, of digits,
\* and of characters that are not whitespace
MethPrefixLen(s) == Leading([i \in 1..Len(s) |-> METH_RE_class(s[i])])

DigitPrefixLen(s) == Leading([i \in 1..Len(s) |-> IsDigit(s[i])])

TokenLen(s) == Leading([i \in 1..Len(s) |-> ~IsSpace(s[i])])

Drop(s, n) == SubSeq(s, n + 1, Len(s))

Min(a, b) == IF a <= b THEN a ELSE b

\* METH_RE.match(s): the text matched at the start of s, None when there is none
METH_RE_match(s) ==
    LET n == Min(MethPrefixLen(s), METH_RE_MAX)
    IN  IF n >= METH_RE_MIN THEN SubSeq(s, 1, n) ELSE None

str_HTTP == <<"H","T","T","P","/">>

\* VERSION_RE.match(s), VERSION_RE = HTTP/(\d+)\.(\d+): the two groups of the
\* match at the start of s, None when there is none
VERSION_RE_match(s) ==
    IF Len(s) < 5 \/ SubSeq(s, 1, 5) # str_HTTP THEN None
    ELSE LET r1 == Drop(s, 5)
             n1 == DigitPrefixLen(r1)
             r2 == Drop(r1, n1)
         IN  IF n1 = 0 \/ r2 = <<>> \/ Head(r2) # "." THEN None
             ELSE LET n2 == DigitPrefixLen(Tail(r2))
                  IN  IF n2 = 0 THEN None
                      ELSE <<SubSeq(r1, 1, n1), SubSeq(Tail(r2), 1, n2)>>

\* bytes.split(None, 2): at most three pieces, split at runs of whitespace; the
\* third piece is the rest of the line as it stands
Split2(s) ==
    LET s1 == LStrip(s)
        n1 == TokenLen(s1)
        s2 == LStrip(Drop(s1, n1))
        n2 == TokenLen(s2)
        s3 == LStrip(Drop(s2, n2))
    IN  IF s1 = <<>> THEN <<>>
        ELSE IF s2 = <<>> THEN <<SubSeq(s1, 1, n1)>>
        ELSE IF s3 = <<>> THEN <<SubSeq(s1, 1, n1), SubSeq(s2, 1, n2)>>
        ELSE <<SubSeq(s1, 1, n1), SubSeq(s2, 1, n2), s3>>

Rep(c, n) == [i \in 1..n |-> c]

\* method tokens: runs of "A" of every length up to MaxMethodRun, alone or with
\* a lowercase letter before, or a lowercase letter, "/", "!" or "~" after; and
\* "GET", "GETt", "get", "A$-_.9"
MethodTokens ==
    { pre \o Rep("A", n) \o post :
        n \in 0..MaxMethodRun, pre \in {<<>>, <<"g">>},
        post \in {<<>>, <<"t">>, <<"/">>, <<"!">>, <<"~">>} }
    \cup { <<"G","E","T">>, <<"G","E","T","t">>, <<"g","e","t">>,
           <<"A","$","-","_",".","9">> }

\* request targets: "/" and "/a?b"
UriTokens == { <<"/">>, <<"/","a","?","b">> }

\* what follows the target: "HTTP/1.1", "HTTP/1.0", "HTTP/12.03", "HTTP/1.1x",
\* "HTTP/1.1 x", "HTTP/1.1 ", "HTTP/1.", "HTTP/.1", "HTTP/11", "http/1.1",
\* "xHTTP/1.1"
VersionTokens ==
    { str_HTTP \o <<"1",".","1">>, str_HTTP \o <<"1",".","0">>,
      str_HTTP \o <<"1","2",".","0","3">>, str_HTTP \o <<"1",".","1","x">>,
      str_HTTP \o <<"1",".","1"," ","x">>, str_HTTP \o <<"1",".","1"," ">>,
      str_HTTP \o <<"1",".">>, str_HTTP \o <<".","1">>, str_HTTP \o <<"1","1">>,
      <<"h","t","t","p","/","1",".","1">>, <<"x">> \o str_HTTP \o <<"1",".","1">> }

\* request lines: method, target and version separated by one space or by
\* whitespace runs, and lines of fewer than three pieces
RequestLines ==
    { m \o sp \o u \o sp \o v :
        m \in MethodTokens \ {<<>>}, sp \in {<<" ">>, <<" ", "\t">>},
        u \in UriTokens, v \in VersionTokens }
    \cup { <<>>, <<"G","E","T">>, <<"G","E","T"," ","/">>, <<"G","E","T"," ","/"," ">> }

InitLine ==
    /\ line_bytes \in RequestLines
    /\ uri_splits \in BOOLEAN
    /\ method = None
    /\ uri = None
    /\ version = None
    /\ pc = "line"
    /\ err = "none"
    /\ headers = <<>>
    /\ must_close = FALSE
    /\ close_result = None
    /\ IdleBody
    /\ IdleHeaders
    /\ IdleIO

ParseRequestLine ==
    /\ pc = "line"
    /\ LET bits == Split2(line_bytes) IN
       IF Len(bits) # 3
       THEN Raise("InvalidRequestLine") /\ UNCHANGED <<method, uri, version>>
       ELSE IF METH_RE_match(bits[1]) = None
       THEN Raise("InvalidRequestMethod") /\ UNCHANGED <<method, uri, version>>
       ELSE /\ method' = Upper(bits[1])
            /\ uri' = bits[2]
            /\ IF ~uri_splits
               THEN Raise("InvalidRequestLine") /\ UNCHANGED version
               ELSE LET match == VERSION_RE_match(bits[3]) IN
                    IF match = None
                    THEN Raise("InvalidHTTPVersion") /\ UNCHANGED version
                    ELSE /\ version' = <<NatOf(match[1]), NatOf(match[2])>>
                         /\ pc' = "parsed"
                         /\ UNCHANGED err
    /\ UNCHANGED <<line_bytes, uri_splits, headers, must_close, close_result>>
    /\ UNCHANGED <<bodyVars, hdrVars, ioVars>>

NextLine == ParseRequestLine

SpecLine == InitLine /\ [][NextLine]_vars

-----------------------------------------------------------------------------
(* Properties of parse_request_line *)

LineBits == Split2(line_bytes)

LineParsed == pc \in {"parsed", "error"}

\* a token of 3 to 20 characters, each an uppercase letter, a digit or one of
\* $ - _ .
ValidMethodToken(t) ==
    /\ Len(t) >= 3
    /\ Len(t) <= 20
    /\ \A i \in 1..Len(t) :
           InSeq(UpperLetters, t[i]) \/ InSeq(DecDigits, t[i])
               \/ t[i] \in {"$", "-", "_", "."}

\* C7: parse_request_line accepts a method token only if the whole token is 3
\* to 20 characters, each an uppercase letter, a digit or one of $ - _ . ;
\* every other token fails with InvalidRequestMethod, so the stored method is
\* the token as received.
C7_MethodTokenRule ==
    (LineParsed /\ Len(LineBits) = 3) =>
        /\ method # None => (ValidMethodToken(LineBits[1]) /\ method = LineBits[1])
        /\ ~ValidMethodToken(LineBits[1]) => err = "InvalidRequestMethod"

\* the places of a dot that splits t into HTTP/<digits> and <digits>
VersionDots(t) ==
    { i \in 7..(Len(t) - 1) :
        /\ SubSeq(t, 1, 5) = str_HTTP
        /\ t[i] = "."
        /\ AllDecimalDigits(SubSeq(t, 6, i - 1))
        /\ AllDecimalDigits(SubSeq(t, i + 1, Len(t))) }

\* C8: parse_request_line accepts the third token only if the whole token is
\* HTTP/<digits>.<digits>, and then version = (major, minor); a third token
\* with anything after the minor digits fails with InvalidHTTPVersion.  (Stated
\* for the lines whose method and target are accepted.)
C8_WholeVersionToken ==
    (LineParsed /\ Len(LineBits) = 3 /\ ValidMethodToken(LineBits[1]) /\ uri_splits) =>
        IF VersionDots(LineBits[3]) # {}
        THEN LET i == CHOOSE i \in VersionDots(LineBits[3]) : TRUE
             IN  /\ pc = "parsed"
                 /\ version = <<DecimalValue(SubSeq(LineBits[3], 6, i - 1)),
                                DecimalValue(SubSeq(LineBits[3], i + 1, Len(LineBits[3])))>>
        ELSE pc = "error" /\ err = "InvalidHTTPVersion"

-----------------------------------------------------------------------------
(* Message.__init__: the header limits *)

MAX_HEADERS == 32768

DEFAULT_MAX_HEADERFIELD_SIZE == 8190

\* self.limit_request_fields
EffectiveFields(n) == IF n <= 0 \/ n > MAX_HEADERS THEN MAX_HEADERS ELSE n

\* self.limit_request_field_size
EffectiveFieldSize(n) == IF n < 0 THEN DEFAULT_MAX_HEADERFIELD_SIZE ELSE n

\* self.max_buffer_headers
MaxBufferHeaders(fields, size) ==
    fields * ((IF size # 0 THEN size ELSE DEFAULT_MAX_HEADERFIELD_SIZE) + 2) + 4

-----------------------------------------------------------------------------
(* Inputs of parse_headers *)

CRLF == <<"\r", "\n">>

X_FORWARDED_PROTO ==
    <<"X","-","F","O","R","W","A","R","D","E","D","-","P","R","O","T","O">>

X_FORWARDED_SSL == <<"X","-","F","O","R","W","A","R","D","E","D","-","S","S","L">>

str_https == <<"h","t","t","p","s">>

\* cfg.secure_scheme_headers: header name -> the value that means https
SecureSchemeHeaders == { <<X_FORWARDED_PROTO, str_https>>, <<X_FORWARDED_SSL, <<"o","n">>>> }

\* header lines: "A: b", " c" (a continuation), "x" (no colon), "A : b" (a
\* space before the colon), "X-Forwarded-Proto: https",
\* "X-Forwarded-Proto: http", "X-Forwarded-Ssl: on"
HeaderLines ==
    { <<"A",":"," ","b">>, <<" ","c">>, <<"x">>, <<"A"," ",":"," ","b">>,
      <<"X","-","F","o","r","w","a","r","d","e","d","-","P","r","o","t","o",":"," ">>
          \o str_https,
      <<"X","-","F","o","r","w","a","r","d","e","d","-","P","r","o","t","o",":"," ",
        "h","t","t","p">>,
      <<"X","-","F","o","r","w","a","r","d","e","d","-","S","s","l",":"," ","o","n">> }

RECURSIVE Join(_, _)
Join(ls, sep) ==
    IF Len(ls) = 1 THEN ls[1] ELSE ls[1] \o sep \o Join(Tail(ls), sep)

\* the header blocks Request.parse hands over: data[:idx] is not empty, holds
\* no empty line and does not end with CRLF
HeaderBlocks == { Join(ls, CRLF) : ls \in SeqsUpTo(HeaderLines, MaxLines) \ {<<>>} }

Config(f, z, st, ssl, allow) ==
    [limit_request_fields |-> f, limit_request_field_size |-> z,
     strip_header_spaces |-> st, is_ssl |-> ssl, forwarded_allow_ips |-> allow,
     secure_scheme_headers |-> SecureSchemeHeaders]

TcpPeer == <<"tuple", <<"10.0.0.1", 5000>>>>

\* a unix-socket peer: its address is a str, no tuple
UnixPeer == <<"str", "/run/gunicorn.sock">>

\* cfg with peer_addr: every pair of limit_request_fields and
\* limit_request_field_size and both strip_header_spaces with a peer that is not
\* allowed to forward; one cfg with negative limits; every combination of
\* is_ssl, forwarded_allow_ips and the kind of peer with wide limits; and two
\* cfg with narrow limits and a peer that is allowed to forward
ConfigsAndPeers ==
    { <<Config(f, z, st, FALSE, {"127.0.0.1"}), TcpPeer>> :
        f \in {0, 1, 2, MAX_HEADERS + 1}, z \in {0, 12}, st \in BOOLEAN }
    \cup { <<Config(0 - 1, 0 - 1, FALSE, FALSE, {"127.0.0.1"}), TcpPeer>> }
    \cup { <<Config(100, 8190, FALSE, ssl, allow), peer>> :
             ssl \in BOOLEAN,
             allow \in {{"127.0.0.1"}, {"*"}, {"10.0.0.9", "10.0.0.1"}},
             peer \in {TcpPeer, UnixPeer} }
    \cup { <<Config(1, 0, FALSE, FALSE, {"*"}), TcpPeer>>,
           <<Config(0, 25, FALSE, TRUE, {"*"}), TcpPeer>> }

-----------------------------------------------------------------------------
(* Message.parse_headers *)

\* bytes.split(b"\r\n")
RECURSIVE SplitCRLF(_, _)
SplitCRLF(s, cur) ==
    IF s = <<>> THEN <<cur>>
    ELSE IF Len(s) >= 2 /\ SubSeq(s, 1, 2) = CRLF
         THEN <<cur>> \o SplitCRLF(Drop(s, 2), <<>>)
         ELSE SplitCRLF(Tail(s), Append(cur, Head(s)))

\* str.find(":"): the index from 0 of the first colon, -1 when there is none
FindColon(s) ==
    IF \E i \in 1..Len(s) : s[i] = ":"
    THEN (CHOOSE i \in 1..Len(s) : s[i] = ":" /\ \A j \in 1..(i - 1) : s[j] # ":") - 1
    ELSE 0 - 1

\* name.rstrip(" \t")
RECURSIVE RStripBlanks(_)
RStripBlanks(s) ==
    IF s # <<>> /\ s[Len(s)] \in {" ", "\t"}
    THEN RStripBlanks(SubSeq(s, 1, Len(s) - 1)) ELSE s

\* HEADER_RE = [\x00-\x1F\x7F()<>@,;:\[\]={} \t\\\"]
HEADER_RE_class(c) ==
    \/ c \in {"(", ")", "<", ">", "@", ",", ";", ":", "[", "]", "=", "{", "}",
              " ", "\t", "\\", "\""}
    \/ Ord(c) \in 0..31
    \/ Ord(c) = 127

HEADER_RE_search(s) == \E i \in 1..Len(s) : HEADER_RE_class(s[i])

\* every peer may set the scheme
SchemeTrusted_Always(c, peer) == TRUE

\* the peer may set the scheme: the test of lines 77-79
SchemeTrusted(c, peer) ==
    \/ "*" \in c.forwarded_allow_ips
    \/ peer[1] # "tuple"
    \/ peer[2][1] \in c.forwarded_allow_ips

\* the number of lines at the start of ls that start with a space or a tab
ContinuationLines(ls) == Leading([i \in 1..Len(ls) |-> ls[i][1] \in {" ", "\t"}])

RECURSIVE Concat(_)
Concat(ls) == IF ls = <<>> THEN <<>> ELSE Head(ls) \o Concat(Tail(ls))

RECURSIVE SumLen(_)
SumLen(ls) == IF ls = <<>> THEN 0 ELSE Len(Head(ls)) + SumLen(Tail(ls))

\* the test at the top of the while loop, taken with a wrong comparison
FieldLimitReached_Late(n, limit) == n > limit

\* the test at the top of the while loop
FieldLimitReached(n, limit) == n >= limit

\* header_length > self.limit_request_field_size > 0
FieldTooLarge(len, limit) == len > limit /\ limit > 0

\* the test of lines 119-120, never taken
SchemeConflict_Never(seen, derived, current) == FALSE

\* a secure-scheme header after the first one derives another scheme: the test
\* of lines 119-120
SchemeConflict(seen, derived, current) == seen /\ derived # current

InitHeaders ==
    /\ \E cp \in ConfigsAndPeers : cfg = cp[1] /\ peer_addr = cp[2]
    /\ data \in HeaderBlocks
    /\ limit_request_fields = 0
    /\ limit_request_field_size = 0
    /\ max_buffer_headers = 0
    /\ scheme = "http"
    /\ lines = <<>>
    /\ headers_local = <<>>
    /\ scheme_header = FALSE
    /\ secure_scheme_headers = {}
    /\ headers = <<>>
    /\ version = None
    /\ must_close = FALSE
    /\ close_result = None
    /\ pc = "init"
    /\ err = "none"
    /\ IdleBody
    /\ IdleLine
    /\ IdleIO

\* Message.__init__ up to the call of parse
MessageInit ==
    /\ pc = "init"
    /\ scheme' = IF cfg.is_ssl THEN "https" ELSE "http"
    /\ limit_request_fields' = EffectiveFields(cfg.limit_request_fields)
    /\ limit_request_field_size' = EffectiveFieldSize(cfg.limit_request_field_size)
    /\ max_buffer_headers' =
           MaxBufferHeaders(EffectiveFields(cfg.limit_request_fields),
                            EffectiveFieldSize(cfg.limit_request_field_size))
    /\ pc' = "parse_headers"
    /\ UNCHANGED <<err, headers, version, must_close, close_result, cfg, peer_addr,
                   data, lines, headers_local, scheme_header, secure_scheme_headers>>
    /\ UNCHANGED <<bodyVars, lineVars, ioVars>>

\* parse_headers up to its while loop
ParseHeadersStart ==
    /\ pc = "parse_headers"
    /\ headers_local' = <<>>
    /\ LET split == SplitCRLF(data, <<>>)
       IN  lines' = [i \in 1..Len(split) |-> split[i] \o CRLF]
    /\ scheme_header' = FALSE
    /\ secure_scheme_headers' =
           IF SchemeTrusted(cfg, peer_addr) THEN cfg.secure_scheme_headers ELSE {}
    /\ pc' = "while"
    /\ UNCHANGED <<err, headers, version, must_close, close_result, cfg, peer_addr,
                   limit_request_fields, limit_request_field_size,
                   max_buffer_headers, scheme, data>>
    /\ UNCHANGED <<bodyVars, lineVars, ioVars>>

\* one iteration of the while loop: one header field with its continuation lines
ParseHeaderField ==
    /\ pc = "while"
    /\ lines # <<>>
    /\ IF FieldLimitReached(Len(headers_local), limit_request_fields)
       THEN /\ Raise("LimitRequestHeaders(fields)")
            /\ UNCHANGED <<lines, headers_local, scheme, scheme_header>>
       ELSE
       LET curr == Head(lines)
           colon == FindColon(curr)
           name0 == SubSeq(curr, 1, colon)
           name1 == IF cfg.strip_header_spaces
                    THEN Upper(RStripBlanks(name0)) ELSE Upper(name0)
           name == Strip(name1)
           first == LStrip(Drop(curr, colon + 1))
           nconts == ContinuationLines(Tail(lines))
           \* the continuation lines after which the size test of the inner loop fails
           over == { j \in 1..nconts :
                       FieldTooLarge(SumLen(SubSeq(lines, 1, 1 + j)),
                                     limit_request_field_size) }
           value == RStrip(first \o Concat(SubSeq(lines, 2, 1 + nconts)))
           known == { h \in secure_scheme_headers : h[1] = name }
           derived == IF \E h \in known : value = h[2] THEN "https" ELSE "http"
       IN  IF colon < 0
           THEN /\ Raise("InvalidHeader")
                /\ lines' = Tail(lines)
                /\ UNCHANGED <<headers_local, scheme, scheme_header>>
           ELSE IF HEADER_RE_search(name1)
           THEN /\ Raise("InvalidHeaderName")
                /\ lines' = Tail(lines)
                /\ UNCHANGED <<headers_local, scheme, scheme_header>>
           ELSE IF over # {}
           THEN /\ Raise("LimitRequestHeaders(fields size)")
                /\ lines' = Drop(lines, 1 + (CHOOSE j \in over : \A k \in over : j <= k))
                /\ UNCHANGED <<headers_local, scheme, scheme_header>>
           ELSE IF FieldTooLarge(SumLen(SubSeq(lines, 1, 1 + nconts)),
                                 limit_request_field_size)
           THEN /\ Raise("LimitRequestHeaders(fields size)")
                /\ lines' = Drop(lines, 1 + nconts)
                /\ UNCHANGED <<headers_local, scheme, scheme_header>>
           ELSE IF known # {} /\ SchemeConflict(scheme_header, derived, scheme)
           THEN /\ Raise("InvalidSchemeHeaders")
                /\ lines' = Drop(lines, 1 + nconts)
                /\ UNCHANGED <<headers_local, scheme, scheme_header>>
           ELSE /\ lines' = Drop(lines, 1 + nconts)
                /\ scheme_header' = (scheme_header \/ known # {})
                /\ scheme' = IF known # {} /\ ~scheme_header THEN derived ELSE scheme
                /\ headers_local' = Append(headers_local, <<name, value>>)
                /\ UNCHANGED <<pc, err>>
    /\ UNCHANGED <<headers, version, must_close, close_result, cfg, peer_addr,
                   limit_request_fields, limit_request_field_size,
                   max_buffer_headers, data, secure_scheme_headers>>
    /\ UNCHANGED <<bodyVars, lineVars, ioVars>>

\* the loop ends and Request.parse stores the list: self.headers = ...
ParseHeadersReturn ==
    /\ pc = "while"
    /\ lines = <<>>
    /\ headers' = headers_local
    /\ pc' = "headers_done"
    /\ UNCHANGED <<err, version, must_close, close_result>>
    /\ UNCHANGED <<bodyVars, lineVars, hdrVars, ioVars>>

NextHeaders ==
    \/ MessageInit
    \/ ParseHeadersStart
    \/ ParseHeaderField
    \/ ParseHeadersReturn

SpecHeaders == InitHeaders /\ [][NextHeaders]_vars

-----------------------------------------------------------------------------
(* Properties of parse_headers *)

\* the logical fields of a header block: its lines that do not continue the
\* line before
LogicalFields(d) ==
    LET ls == SplitCRLF(d, <<>>)
    IN  Cardinality({ i \in 1..Len(ls) : ls[i] # <<>> => ls[i][1] \notin {" ", "\t"} })

\* the limit in effect for cfg.limit_request_fields = n
FieldsLimitFor(n) == IF n >= 1 /\ n <= 32768 THEN n ELSE 32768

-----------------------------------------------------------------------------
(* The scheme headers *)

\* the names of cfg.secure_scheme_headers
SecureNames == { h[1] : h \in cfg.secure_scheme_headers }

\* the scheme a secure-scheme header <<name, value>> derives
DerivedScheme(h) == IF <<h[1], h[2]>> \in cfg.secure_scheme_headers THEN "https" ELSE "http"

\* the positions of the secure-scheme headers accumulated so far
SecureSeen == { i \in 1..Len(headers_local) : headers_local[i][1] \in SecureNames }

\* the pass is running, for a peer whose scheme headers are trusted
TrustedPass == pc = "while" /\ lines # <<>> /\ SchemeTrusted(cfg, peer_addr)

\* the header the loop meets next: its name, its value, its length with the
\* line ends
MetName == Upper(SubSeq(Head(lines), 1, FindColon(Head(lines))))

MetLines == SubSeq(lines, 1, 1 + ContinuationLines(Tail(lines)))

MetValue ==
    RStrip(LStrip(Drop(Head(lines), FindColon(Head(lines)) + 1)) \o Concat(Tail(MetLines)))

MetIsSecure == FindColon(Head(lines)) >= 0 /\ MetName \in SecureNames

MetScheme == DerivedScheme(<<MetName, MetValue>>)

\* the field limits let the header through
MetWithinLimits ==
    /\ Len(headers_local) < limit_request_fields
    /\ limit_request_field_size > 0 => SumLen(MetLines) <= limit_request_field_size

\* what C11 says of the step that meets a secure-scheme header
SchemeStep ==
    IF SecureSeen = {}
    THEN scheme' = MetScheme /\ err' = "none"
    ELSE IF MetScheme = scheme
    THEN scheme' = scheme /\ err' = "none"
    ELSE err' = "InvalidSchemeHeaders" /\ scheme' = scheme

\* the scheme is the one the first secure-scheme header of the list derives,
\* and every other one of the list derives it too
SchemeNotOverridden ==
    \A i \in SecureSeen : DerivedScheme(headers_local[i]) = scheme

\* C11 as stated: within a pass from a trusted peer the first secure-scheme
\* header fixes the scheme, a later one deriving the same scheme changes
\* nothing, and a later one deriving another scheme fails with
\* InvalidSchemeHeaders.
C11_AsStated == [][(TrustedPass /\ MetIsSecure) => SchemeStep]_vars

\* C11: as above for the secure-scheme headers the field limits let through;
\* one that the limits stop fails the pass with LimitRequestHeaders and leaves
\* the scheme alone; the scheme is never overridden by a later header.
C11_SchemeFixedOnce ==
    [][/\ (TrustedPass /\ MetIsSecure /\ MetWithinLimits) => SchemeStep
       /\ (TrustedPass /\ MetIsSecure /\ ~MetWithinLimits) =>
              /\ err' \in {"LimitRequestHeaders(fields)", "LimitRequestHeaders(fields size)"}
              /\ scheme' = scheme
       /\ (SchemeTrusted(cfg, peer_addr) /\ pc \in {"while", "headers_done", "error"}) =>
              SchemeNotOverridden']_vars

\* a pass ended by a second secure-scheme header that derives another scheme
\* than the first, which overrode the is_ssl default
C11_Witness ==
    /\ err = "InvalidSchemeHeaders"
    /\ SchemeTrusted(cfg, peer_addr)
    /\ SecureSeen # {}
    /\ scheme # (IF cfg.is_ssl THEN "https" ELSE "http")

\* the peer is a concrete address that forwarded_allow_ips does not hold, and
\* forwarded_allow_ips has no wildcard
PeerNotForwarder ==
    /\ peer_addr[1] = "tuple"
    /\ peer_addr[2][1] \notin cfg.forwarded_allow_ips
    /\ "*" \notin cfg.forwarded_allow_ips

\* C19: for a peer that is a concrete address outside a forwarded_allow_ips
\* without wildcard, parse_headers leaves the scheme at https iff is_ssl and
\* never raises InvalidSchemeHeaders, whatever the block holds.
C19_UntrustedSchemeUntouched ==
    (PeerNotForwarder /\ pc \in {"parse_headers", "while", "headers_done", "error"}) =>
        /\ scheme = (IF cfg.is_ssl THEN "https" ELSE "http")
        /\ err # "InvalidSchemeHeaders"

\* a block from such a peer with two secure-scheme headers that disagree with
\* each other, accepted with the scheme of is_ssl
C19_Witness ==
    /\ pc = "headers_done"
    /\ PeerNotForwarder
    /\ cfg.is_ssl
    /\ scheme = "https"
    /\ \E i, j \in 1..Len(headers) :
           /\ headers[i] = <<X_FORWARDED_PROTO, str_https>>
           /\ headers[j] = <<X_FORWARDED_PROTO, <<"h","t","t","p">>>>

-----------------------------------------------------------------------------
(* The unreader and Request.get_data *)

\* a source that goes on for ever: read() may return any chunk, or nothing
Endless == <<"endless">>

LineBytes == {"a", "\r", "\n"}

\* the longest buffer read_line is followed to when no limit is set
MaxBuf == MaxLimit + 2 + MaxChunk

\* what unreader.read() may return: some bytes from the front of what the peer
\* sends, or b"" once the peer has closed the connection
ReadResults ==
    IF source = Endless
    THEN { c \in SeqsUpTo(LineBytes, MaxChunk) : Len(buf) + Len(c) <= MaxBuf }
    ELSE { SubSeq(source, 1, k) : k \in 0..Len(source) }

\* unreader.read() returns chunk
Read(chunk) ==
    /\ chunk \in ReadResults
    /\ pulled' = pulled \o chunk
    /\ source' = IF source = Endless THEN source ELSE Drop(source, Len(chunk))

RaiseWith(e, arg) == Raise(e) /\ err_arg' = arg

\* the exception of get_data, whatever stop is
EndOfData_AlwaysStop(stop) == "StopIteration"

\* the exception of get_data when read() returned nothing
EndOfData(stop) == IF stop THEN "StopIteration" ELSE "NoMoreData"

\* get_data(unreader, buf, stop), read() having returned chunk; the caller
\* goes on at next
GetData(chunk, stop, next) ==
    IF chunk = <<>>
    THEN /\ RaiseWith(EndOfData(stop), IF EndOfData(stop) = "NoMoreData" THEN buf ELSE None)
         /\ UNCHANGED buf
    ELSE /\ buf' = buf \o chunk
         /\ pc' = next
         /\ UNCHANGED <<err, err_arg>>

-----------------------------------------------------------------------------
(* Request.read_line *)

\* bytes.find(pat): the index from 0 of the first occurrence, -1 when there is none
Find(s, pat) ==
    LET at == { i \in 1..(Len(s) - Len(pat) + 1) : SubSeq(s, i, i + Len(pat) - 1) = pat }
    IN  IF at = {} THEN 0 - 1 ELSE (CHOOSE i \in at : \A j \in at : i <= j) - 1

\* idx > limit > 0
LineTooLong(n, limit) == n > limit /\ limit > 0

\* the test of line 294, never taken
BufferTooLong_Never(n, limit) == FALSE

\* len(data) - 2 > limit > 0
BufferTooLong(n, limit) == n - 2 > limit /\ limit > 0

\* the loop finds the line end: the length test, then the return
ReadLineReturn ==
    /\ pc = "read_line"
    /\ Find(buf, CRLF) >= 0
    /\ LET i == Find(buf, CRLF) IN
       IF LineTooLong(i, limit_request_line)
       THEN /\ RaiseWith("LimitRequestLine", <<i, limit_request_line>>)
            /\ UNCHANGED <<line, rbuf>>
       ELSE /\ line' = SubSeq(buf, 1, i)
            /\ rbuf' = Drop(buf, i + 2)
            /\ pc' = caller
            /\ UNCHANGED <<err, err_arg>>
    /\ UNCHANGED <<source, pulled, pushed, buf, caller, limit_request_line,
                   req_number, proxy_protocol_info>>
    /\ UNCHANGED <<headers, version, must_close, close_result>>
    /\ UNCHANGED <<bodyVars, lineVars, hdrVars>>

\* no line end and the buffer is over the limit
ReadLineTooLong ==
    /\ pc = "read_line"
    /\ Find(buf, CRLF) < 0
    /\ BufferTooLong(Len(buf), limit_request_line)
    /\ RaiseWith("LimitRequestLine", <<Len(buf), limit_request_line>>)
    /\ UNCHANGED <<source, pulled, pushed, buf, rbuf, line, caller,
                   limit_request_line, req_number, proxy_protocol_info>>
    /\ UNCHANGED <<headers, version, must_close, close_result>>
    /\ UNCHANGED <<bodyVars, lineVars, hdrVars>>

\* no line end yet: one more get_data
ReadLinePull ==
    /\ pc = "read_line"
    /\ Find(buf, CRLF) < 0
    /\ ~BufferTooLong(Len(buf), limit_request_line)
    /\ \E chunk \in ReadResults : Read(chunk) /\ GetData(chunk, FALSE, "read_line")
    /\ UNCHANGED <<pushed, rbuf, line, caller, limit_request_line, req_number,
                   proxy_protocol_info>>
    /\ UNCHANGED <<headers, version, must_close, close_result>>
    /\ UNCHANGED <<bodyVars, lineVars, hdrVars>>

\* read_line called with a buffer of up to MaxChunk bytes and a limit up to
\* MaxLimit, on a source that goes on for ever
InitReadLine ==
    /\ source = Endless
    /\ buf \in SeqsUpTo(LineBytes, MaxChunk)
    /\ limit_request_line \in 0..MaxLimit
    /\ pulled = <<>>
    /\ pushed = <<>>
    /\ rbuf = <<>>
    /\ line = <<>>
    /\ caller = "returned"
    /\ req_number = 1
    /\ proxy_protocol_info = None
    /\ err_arg = None
    /\ pc = "read_line"
    /\ err = "none"
    /\ headers = <<>>
    /\ version = None
    /\ must_close = FALSE
    /\ close_result = None
    /\ IdleBody
    /\ IdleLine
    /\ IdleHeaders

NextReadLine ==
    \/ ReadLineReturn
    \/ ReadLineTooLong
    \/ ReadLinePull

SpecReadLine == InitReadLine /\ [][NextReadLine]_vars

\* the loop of read_line always goes on: nothing in it waits but the read
SpecReadLineFair == SpecReadLine /\ WF_vars(NextReadLine)

-----------------------------------------------------------------------------
(* Properties of read_line *)

\* C17: for limit > 0 read_line returns a line only if its length before the
\* CRLF is at most limit and fails with LimitRequestLine otherwise; it pulls
\* only while the buffer holds no CRLF and at most limit + 2 bytes; with a
\* source that delivers at least one byte per read, or EOF, it ends after
\* finitely many pulls.
C17_ReadLineBounded ==
    /\ [](limit_request_line > 0 =>
            /\ pc = "returned" =>
                   /\ Len(line) <= limit_request_line
                   /\ Find(line, CRLF) < 0
                   /\ buf = line \o CRLF \o rbuf
            /\ (pc # "read_line" /\ Find(buf, CRLF) > limit_request_line) =>
                   /\ err = "LimitRequestLine"
                   /\ err_arg = <<Find(buf, CRLF), limit_request_line>>
            /\ err = "LimitRequestLine" =>
                   \/ Find(buf, CRLF) > limit_request_line
                   \/ Find(buf, CRLF) < 0 /\ Len(buf) > limit_request_line + 2
            /\ pc = "read_line" => Len(buf) <= limit_request_line + 2 + MaxChunk)
    /\ [][(limit_request_line > 0 /\ (pulled' # pulled \/ err' = "NoMoreData")) =>
            (Find(buf, CRLF) < 0 /\ Len(buf) <= limit_request_line + 2)]_vars
    /\ (limit_request_line > 0 => <>(pc # "read_line"))

\* a buffer that grew over the limit in several pulls without a line end
C17_Witness ==
    /\ err = "LimitRequestLine"
    /\ limit_request_line > 0
    /\ Len(pulled) >= 2
    /\ Find(buf, CRLF) < 0
    /\ Len(buf) > limit_request_line + 2

-----------------------------------------------------------------------------
(* Request.proxy_protocol and Request.parse_proxy_protocol *)

MAX_REQUEST_LINE == 8190

str_PROXY == <<"P","R","O","X","Y">>

str_TCP4 == <<"T","C","P","4">>

str_TCP6 == <<"T","C","P","6">>

StartsWith(s, p) == Len(s) >= Len(p) /\ SubSeq(s, 1, Len(p)) = p

\* str.split(): the pieces between runs of whitespace
RECURSIVE SplitWS(_)
SplitWS(s) ==
    LET s1 == LStrip(s)
    IN  IF s1 = <<>> THEN <<>>
        ELSE <<SubSeq(s1, 1, TokenLen(s1))>> \o SplitWS(Drop(s1, TokenLen(s1)))

\* str.split(c) for one character c
RECURSIVE SplitOn(_, _, _)
SplitOn(s, c, cur) ==
    IF s = <<>> THEN <<cur>>
    ELSE IF Head(s) = c THEN <<cur>> \o SplitOn(Tail(s), c, <<>>)
    ELSE SplitOn(Tail(s), c, Append(cur, Head(s)))

IsHexDigit(c) == IsDigit(c) \/ c \in {"a","b","c","d","e","f","A","B","C","D","E","F"}

\* socket.inet_pton(socket.AF_INET, s) accepts s: four decimal numbers up to
\* 255 of at most three digits, with no leading zero, separated by dots
inet_pton_AF_INET(s) ==
    LET parts == SplitOn(s, ".", <<>>)
    IN  /\ Len(parts) = 4
        /\ \A i \in 1..4 :
               /\ Len(parts[i]) \in 1..3
               /\ \A j \in 1..Len(parts[i]) : IsDigit(parts[i][j])
               /\ Len(parts[i]) > 1 => parts[i][1] # "0"
               /\ NatOf(parts[i]) <= 255

\* socket.inet_pton(socket.AF_INET6, s) accepts s: groups of one to four
\* hexadecimal digits separated by colons, eight of them, or fewer with one
\* "::" (the forms that end with a dotted IPv4 address are left out)
inet_pton_AF_INET6(s) ==
    LET parts == SplitOn(s, ":", <<>>)
        full == { i \in 1..Len(parts) : parts[i] # <<>> }
        doubles == { i \in 1..(Len(s) - 1) : s[i] = ":" /\ s[i + 1] = ":" }
    IN  /\ s # <<>>
        /\ \A i \in full :
               Len(parts[i]) <= 4 /\ \A j \in 1..Len(parts[i]) : IsHexDigit(parts[i][j])
        /\ Cardinality(doubles) <= 1
        /\ IF doubles = {}
           THEN Len(parts) = 8 /\ Cardinality(full) = 8
           ELSE /\ Cardinality(full) <= 7
                /\ s[1] = ":" => s[2] = ":"
                /\ s[Len(s)] = ":" => s[Len(s) - 1] = ":"

\* the access check, always passed
ProxyForbidden_Never(c, peer) == FALSE

\* proxy_protocol_access_check raises
ProxyForbidden(c, peer) ==
    /\ "*" \notin c.proxy_allow_ips
    /\ peer[1] = "tuple"
    /\ peer[2][1] \notin c.proxy_allow_ips

\* a PROXY line taken whatever the request number is
IsProxyLine_AnyRequest(c, n, text) == c.proxy_protocol /\ StartsWith(text, str_PROXY)

\* proxy_protocol takes the line as a PROXY line: the tests of lines 309-316
IsProxyLine(c, n, text) == c.proxy_protocol /\ n = 1 /\ StartsWith(text, str_PROXY)

\* parse_proxy_protocol(text): the proxy_protocol_info it sets, None when it
\* raises InvalidProxyLine (the port texts given hold no underscore)
ProxyInfo(text) ==
    LET bits == SplitWS(text) IN
    IF Len(bits) # 6 THEN None
    ELSE IF bits[2] \notin {str_TCP4, str_TCP6} THEN None
    ELSE IF bits[2] = str_TCP4 /\ ~(inet_pton_AF_INET(bits[3]) /\ inet_pton_AF_INET(bits[4]))
    THEN None
    ELSE IF bits[2] = str_TCP6 /\ ~(inet_pton_AF_INET6(bits[3]) /\ inet_pton_AF_INET6(bits[4]))
    THEN None
    ELSE IF ~(IsInt(bits[5]) /\ IsInt(bits[6])) THEN None
    ELSE IF ~(Int_(bits[5]) \in 0..65535 /\ Int_(bits[6]) \in 0..65535) THEN None
    ELSE <<"dict", [proxy_protocol |-> bits[2], client_addr |-> bits[3],
                    client_port |-> Int_(bits[5]), proxy_addr |-> bits[4],
                    proxy_port |-> Int_(bits[6])]>>

-----------------------------------------------------------------------------
(* Inputs of Request.__init__ *)

\* most bytes of a following message sent behind the message
MaxPipelined == 2

ProxyTcp4 ==
    <<"P","R","O","X","Y"," ","T","C","P","4"," ","1",".","1",".","1",".","1"," ","1",".","1",
      ".","1",".","1"," ","1"," ","1">>

ProxyTcp6 ==
    <<"P","R","O","X","Y"," ","T","C","P","6"," ",":",":","1"," ","1",":","2",":","3",":","4",
      ":","5",":","6",":","7",":","8"," ","1"," ","6","5","5","3","5">>

ProxyBadAddr ==
    <<"P","R","O","X","Y"," ","T","C","P","4"," ",":",":","1"," ","1",".","1",".","1",".","1",
      " ","1"," ","1">>

ProxyBadPort ==
    <<"P","R","O","X","Y"," ","T","C","P","4"," ","1",".","1",".","1",".","1"," ","1",".","1",
      ".","1",".","1"," ","1"," ","6","5","5","3","6">>

ProxyBadProto ==
    <<"P","R","O","X","Y"," ","U","D","P","4"," ","1",".","1",".","1",".","1"," ","1",".","1",
      ".","1",".","1"," ","1"," ","1">>

ProxyBadInt ==
    <<"P","R","O","X","Y"," ","T","C","P","4"," ","1",".","1",".","1",".","1"," ","1",".","1",
      ".","1",".","1"," ","x"," ","1">>

ProxyBadAddr6 ==
    <<"P","R","O","X","Y"," ","T","C","P","6"," ","1",".","1",".","1",".","1"," ",":",":","1",
      " ","1"," ","1">>

ProxyShort == <<"P","R","O","X","Y"," ","x">>

LineGet == <<"G","E","T"," ","/"," ","H","T","T","P","/","1",".","1">>

\* a request line of method PROXY
LineProxyMethod == <<"P","R","O","X","Y"," ","/"," ","H","T","T","P","/","1",".","1">>

LineTwoPieces == <<"G","E","T"," ","/">>

FieldOther == <<"A",":"," ","b">>

FieldContentLength == <<"C","o","n","t","e","n","t","-","L","e","n","g","t","h",":"," ","7">>

FieldChunked ==
    <<"T","r","a","n","s","f","e","r","-","E","n","c","o","d","i","n","g",":"," ","c","h","u",
      "n","k","e","d">>

FieldNoColon == <<"x">>

\* the message that follows on the connection
NextMessage == <<"G","E","T"," ","/"," ","H","T","T","P","/","1",".","1","\r","\n","\r","\n">>

\* a message: the lines given, a blank line, and n bytes of the next message
Sent(ls, n) == Concat([i \in 1..Len(ls) |-> ls[i] \o CRLF]) \o CRLF \o SubSeq(NextMessage, 1, n)

\* what the peer sends: a request with or without a preamble and one header
\* field, with the start of a next message; the preambles that are refused;
\* requests with body framing fields; a request line of two pieces; a header
\* line without a colon; blank lines only; nothing
Sources ==
    { Sent(pre \o <<rl>> \o hs, n) :
        pre \in {<<>>, <<ProxyTcp4>>}, rl \in {LineGet, LineProxyMethod},
        hs \in {<<>>, <<FieldOther>>}, n \in {0, MaxPipelined} }
    \cup { Sent(<<p, LineGet>>, 0) :
             p \in {ProxyTcp6, ProxyBadAddr, ProxyBadPort, ProxyBadProto, ProxyBadInt,
                    ProxyBadAddr6, ProxyShort} }
    \cup { Sent(<<LineGet>> \o hs, MaxPipelined) :
             hs \in {<<FieldContentLength>>, <<FieldChunked>>,
                     <<FieldChunked, FieldContentLength>>, <<FieldOther, FieldNoColon>>} }
    \cup { Sent(<<LineTwoPieces>>, 0), Sent(<<ProxyTcp4>>, 0), CRLF \o CRLF, <<>> }

RequestConfig(f, z, l, pp, pallow) ==
    [limit_request_fields |-> f, limit_request_field_size |-> z,
     strip_header_spaces |-> FALSE, is_ssl |-> FALSE,
     forwarded_allow_ips |-> {"127.0.0.1"},
     secure_scheme_headers |-> SecureSchemeHeaders,
     limit_request_line |-> l, proxy_protocol |-> pp, proxy_allow_ips |-> pallow]

\* cfg, peer_addr, req_number and cfg.tolerate_dangerous_framing: with wide
\* limits, a first and a later request without proxy_protocol, and with it
\* every combination of proxy_allow_ips, the kind of peer and a first or a
\* later request; and for a first request with proxy_protocol on, a peer in a
\* proxy_allow_ips of two, a line limit of 20, a line limit out of range on
\* either side, a header buffer of 7 bytes, and the tolerance of dangerous
\* framing
RequestSettings ==
    { <<RequestConfig(100, 8190, 0, FALSE, {"127.0.0.1"}), TcpPeer, n, FALSE>> : n \in {1, 2} }
    \cup { <<RequestConfig(100, 8190, 0, TRUE, pallow), peer, n, FALSE>> :
             pallow \in {{"*"}, {"127.0.0.1"}}, peer \in {TcpPeer, UnixPeer}, n \in {1, 2} }
    \cup { <<RequestConfig(100, 8190, 0, TRUE, {"10.0.0.9", "10.0.0.1"}), TcpPeer, 1, FALSE>> }
    \cup { <<RequestConfig(100, 8190, l, TRUE, {"*"}), TcpPeer, 1, FALSE>> :
             l \in {20, 0 - 1, MAX_REQUEST_LINE + 1} }
    \cup { <<RequestConfig(1, 1, 0, TRUE, {"*"}), TcpPeer, 1, FALSE>>,
           <<RequestConfig(100, 8190, 0, TRUE, {"*"}), TcpPeer, 1, TRUE>> }

-----------------------------------------------------------------------------
(* Request.__init__ and Request.parse *)

CRLFCRLF == CRLF \o CRLF

\* self.limit_request_line
EffectiveRequestLine(n) == IF n < 0 \/ n >= MAX_REQUEST_LINE THEN MAX_REQUEST_LINE ELSE n

InitRequest ==
    /\ source \in Sources
    /\ \E st \in RequestSettings :
           cfg = st[1] /\ peer_addr = st[2] /\ req_number = st[3] /\ tolerate = st[4]
    /\ pulled = <<>>
    /\ pushed = <<>>
    /\ buf = <<>>
    /\ rbuf = <<>>
    /\ line = <<>>
    /\ caller = "none"
    /\ limit_request_line = 0
    /\ proxy_protocol_info = None
    /\ err_arg = None
    /\ limit_request_fields = 0
    /\ limit_request_field_size = 0
    /\ max_buffer_headers = 0
    /\ scheme = "http"
    /\ data = <<>>
    /\ lines = <<>>
    /\ headers_local = <<>>
    /\ scheme_header = FALSE
    /\ secure_scheme_headers = {}
    /\ headers = <<>>
    /\ version = None
    /\ must_close = FALSE
    /\ close_result = None
    /\ body = None
    /\ idx = 1
    /\ chunked = FALSE
    /\ content_length = None
    /\ pc = "request"
    /\ err = "none"
    /\ IdleLine

\* Request.__init__ and Message.__init__ up to the call of parse
RequestInit ==
    /\ pc = "request"
    /\ limit_request_line' = EffectiveRequestLine(cfg.limit_request_line)
    /\ proxy_protocol_info' = None
    /\ scheme' = IF cfg.is_ssl THEN "https" ELSE "http"
    /\ must_close' = FALSE
    /\ limit_request_fields' = EffectiveFields(cfg.limit_request_fields)
    /\ limit_request_field_size' = EffectiveFieldSize(cfg.limit_request_field_size)
    /\ max_buffer_headers' =
           MaxBufferHeaders(EffectiveFields(cfg.limit_request_fields),
                            EffectiveFieldSize(cfg.limit_request_field_size))
    /\ pc' = "parse"
    /\ UNCHANGED <<err, headers, version, close_result, cfg, peer_addr, data, lines,
                   headers_local, scheme_header, secure_scheme_headers>>
    /\ UNCHANGED <<source, pulled, pushed, buf, rbuf, line, caller, req_number,
                   err_arg>>
    /\ UNCHANGED <<bodyVars, lineVars>>

\* parse: the first get_data, with stop=True, and the first call of read_line
ParseFirstRead ==
    /\ pc = "parse"
    /\ \E chunk \in ReadResults : Read(chunk) /\ GetData(chunk, TRUE, "read_line")
    /\ caller' = "proxy"
    /\ UNCHANGED <<pushed, rbuf, line, limit_request_line, req_number,
                   proxy_protocol_info>>
    /\ UNCHANGED <<headers, version, must_close, close_result>>
    /\ UNCHANGED <<bodyVars, lineVars, hdrVars>>

\* proxy_protocol(line): False
ProxyProtocolFalse ==
    /\ pc = "proxy"
    /\ ~IsProxyLine(cfg, req_number, line)
    /\ pc' = "request_line"
    /\ UNCHANGED <<err, headers, version, must_close, close_result>>
    /\ UNCHANGED <<bodyVars, lineVars, hdrVars, ioVars>>

\* proxy_protocol(line) on a PROXY line: the access check and
\* parse_proxy_protocol; then parse calls read_line on the bytes that followed
ProxyProtocolLine ==
    /\ pc = "proxy"
    /\ IsProxyLine(cfg, req_number, line)
    /\ IF ProxyForbidden(cfg, peer_addr)
       THEN /\ RaiseWith("ForbiddenProxyRequest", peer_addr[2][1])
            /\ UNCHANGED <<proxy_protocol_info, buf, caller>>
       ELSE IF ProxyInfo(line) = None
       THEN /\ RaiseWith("InvalidProxyLine", None)
            /\ UNCHANGED <<proxy_protocol_info, buf, caller>>
       ELSE /\ proxy_protocol_info' = ProxyInfo(line)
            /\ buf' = rbuf
            /\ caller' = "request_line"
            /\ pc' = "read_line"
            /\ UNCHANGED <<err, err_arg>>
    /\ UNCHANGED <<source, pulled, pushed, rbuf, line, limit_request_line,
                   req_number>>
    /\ UNCHANGED <<headers, version, must_close, close_result>>
    /\ UNCHANGED <<bodyVars, lineVars, hdrVars>>

\* parse calls parse_request_line(line)
CallParseRequestLine ==
    /\ pc = "request_line"
    /\ line_bytes' = line
    /\ pc' = "line"
    /\ UNCHANGED <<uri_splits, method, uri>>
    /\ UNCHANGED <<err, headers, version, must_close, close_result>>
    /\ UNCHANGED <<bodyVars, hdrVars, ioVars>>

\* parse_request_line has returned: the buffer of the header block
BeginHeaders ==
    /\ pc = "parsed"
    /\ buf' = rbuf
    /\ pc' = "headers"
    /\ UNCHANGED <<source, pulled, pushed, rbuf, line, caller,
                   limit_request_line, req_number, proxy_protocol_info, err_arg>>
    /\ UNCHANGED <<err, headers, version, must_close, close_result>>
    /\ UNCHANGED <<bodyVars, lineVars, hdrVars>>

\* done = data[:2] == b"\r\n"
HeadersDone(d) == Len(d) >= 2 /\ SubSeq(d, 1, 2) = CRLF

\* the test after a pull in the header loop, never taken
HeaderBufferFull_Never(n, limit) == FALSE

\* len(data) > self.max_buffer_headers
HeaderBufferFull(n, limit) == n > limit

\* the header loop: no blank line in the buffer yet, one more get_data
HeadersPull ==
    /\ pc = "headers"
    /\ Find(buf, CRLFCRLF) < 0
    /\ ~HeadersDone(buf)
    /\ \E chunk \in ReadResults :
           /\ Read(chunk)
           /\ IF chunk # <<>> /\ HeaderBufferFull(Len(buf \o chunk), max_buffer_headers)
              THEN /\ buf' = buf \o chunk
                   /\ RaiseWith("LimitRequestHeaders(max buffer headers)", None)
              ELSE GetData(chunk, FALSE, "headers")
    /\ UNCHANGED <<pushed, rbuf, line, caller, limit_request_line, req_number,
                   proxy_protocol_info>>
    /\ UNCHANGED <<headers, version, must_close, close_result>>
    /\ UNCHANGED <<bodyVars, lineVars, hdrVars>>

\* the header loop ends on a blank line at the start: parse pushes back what
\* follows it and returns b"", which __init__ pushes back; set_body_reader starts
ParseReturnNoHeaders ==
    /\ pc = "headers"
    /\ HeadersDone(buf)
    /\ pushed' = pushed \o Drop(buf, 2) \o <<>>
    /\ pc' = "scan"
    /\ UNCHANGED <<source, pulled, buf, rbuf, line, caller,
                   limit_request_line, req_number, proxy_protocol_info, err_arg>>
    /\ UNCHANGED <<err, headers, version, must_close, close_result>>
    /\ UNCHANGED <<bodyVars, lineVars, hdrVars>>

\* the header loop ends on a blank line further on: parse_headers(data[:idx])
CallParseHeaders ==
    /\ pc = "headers"
    /\ ~HeadersDone(buf)
    /\ Find(buf, CRLFCRLF) >= 0
    /\ data' = SubSeq(buf, 1, Find(buf, CRLFCRLF))
    /\ pc' = "parse_headers"
    /\ UNCHANGED <<cfg, peer_addr, limit_request_fields, limit_request_field_size,
                   max_buffer_headers, scheme, lines, headers_local, scheme_header,
                   secure_scheme_headers>>
    /\ UNCHANGED <<err, headers, version, must_close, close_result>>
    /\ UNCHANGED <<bodyVars, lineVars, ioVars>>

\* the bytes parse returns after parse_headers: data[idx + 4:], kept back
Unused_Keep(d) == <<>>

\* the bytes parse returns after parse_headers: data[idx + 4:]
Unused(d) == Drop(d, Find(d, CRLFCRLF) + 4)

\* parse returns what follows the header block, __init__ pushes it back;
\* set_body_reader starts
ParseReturn ==
    /\ pc = "headers_done"
    /\ pushed' = pushed \o Unused(buf)
    /\ pc' = "scan"
    /\ UNCHANGED <<source, pulled, buf, rbuf, line, caller,
                   limit_request_line, req_number, proxy_protocol_info, err_arg>>
    /\ UNCHANGED <<err, headers, version, must_close, close_result>>
    /\ UNCHANGED <<bodyVars, lineVars, hdrVars>>

NextRequest ==
    \/ RequestInit
    \/ ParseFirstRead
    \/ ReadLineReturn
    \/ ReadLineTooLong
    \/ ReadLinePull
    \/ ProxyProtocolFalse
    \/ ProxyProtocolLine
    \/ CallParseRequestLine
    \/ ParseRequestLine
    \/ BeginHeaders
    \/ HeadersPull
    \/ ParseReturnNoHeaders
    \/ CallParseHeaders
    \/ ParseHeadersStart
    \/ ParseHeaderField
    \/ ParseHeadersReturn
    \/ ParseReturn
    \/ ScanContentLength
    \/ ScanTransferEncoding
    \/ ScanOther
    \/ ResolveChunked
    \/ ResolveLength
    \/ ResolveEOF
    \/ RequestOverride

SpecRequest == InitRequest /\ [][NextRequest]_vars

-----------------------------------------------------------------------------
(* Properties of Request.__init__ and Request.parse *)

\* parse can only go on with more bytes: it is at its first read, or in
\* read_line with no line end in a buffer within the limit, or in the header
\* loop with no blank line in the buffer
WaitingForData ==
    \/ pc = "parse"
    \/ /\ pc = "read_line"
       /\ Find(buf, CRLF) < 0
       /\ ~(limit_request_line > 0 /\ Len(buf) > limit_request_line + 2)
    \/ /\ pc = "headers"
       /\ Find(buf, CRLFCRLF) < 0
       /\ ~(Len(buf) >= 2 /\ SubSeq(buf, 1, 2) = CRLF)

\* C12: a first read that returns no data ends parse with StopIteration; a
\* later read that returns no data (in the request line, in the line after a
\* PROXY line, in the header block) ends it with NoMoreData carrying the bytes
\* of the buffer; StopIteration is raised with no byte pulled only.
C12_EndOfData ==
    /\ [][(WaitingForData /\ pulled' = pulled) =>
            /\ pc' = "error"
            /\ IF pc = "parse"
               THEN err' = "StopIteration"
               ELSE err' = "NoMoreData" /\ err_arg' = buf]_vars
    /\ [](err = "StopIteration" => pulled = <<>>)
    /\ [](err = "NoMoreData" => pulled # <<>> /\ err_arg = buf)

\* the peer closes inside the header block, after a PROXY line and the request
\* line were taken
C12_Witness ==
    /\ err = "NoMoreData"
    /\ proxy_protocol_info # None
    /\ version # None
    /\ err_arg # <<>>

\* the first and the second line of the bytes pulled (the second: up to the
\* next line end, or all that follows the first)
FirstLine(d) == SubSeq(d, 1, Find(d, CRLF))

AfterFirstLine(d) == Drop(d, Find(d, CRLF) + 2)

SecondLine(d) ==
    IF Find(AfterFirstLine(d), CRLF) >= 0 THEN FirstLine(AfterFirstLine(d))
    ELSE AfterFirstLine(d)

\* the first line counts as a PROXY preamble
PreambleCase ==
    /\ cfg.proxy_protocol
    /\ req_number = 1
    /\ Find(pulled, CRLF) >= 0
    /\ Len(FirstLine(pulled)) >= 5
    /\ SubSeq(pulled, 1, 5) = <<"P", "R", "O", "X", "Y">>

\* C13: the first line is handled as a PROXY preamble (proxy_protocol_info set,
\* InvalidProxyLine or ForbiddenProxyRequest raised) only with proxy_protocol
\* on, req_number 1 and a line that starts with PROXY; otherwise the first line
\* is the one given to parse_request_line and proxy_protocol_info stays None;
\* after a preamble the one line that follows it is given to
\* parse_request_line, also when it starts with PROXY.
C13_OnePreambleLine ==
    /\ (proxy_protocol_info # None \/ err \in {"InvalidProxyLine", "ForbiddenProxyRequest"})
           => PreambleCase
    /\ line_bytes # None =>
           IF PreambleCase
           THEN proxy_protocol_info # None /\ line_bytes = SecondLine(pulled)
           ELSE proxy_protocol_info = None /\ line_bytes = FirstLine(pulled)
    /\ (pc \in {"request_line", "line", "parsed", "headers"} /\ ~PreambleCase)
           => line = FirstLine(pulled)

\* a request of method PROXY accepted behind a PROXY preamble
C13_Witness ==
    /\ pc = "done"
    /\ proxy_protocol_info # None
    /\ method = <<"P", "R", "O", "X", "Y">>
    /\ StartsWith(SecondLine(pulled), <<"P", "R", "O", "X", "Y">>)

\* the peer is a concrete address that proxy_allow_ips does not let in
PeerNotAllowed ==
    /\ "*" \notin cfg.proxy_allow_ips
    /\ peer_addr[1] = "tuple"
    /\ peer_addr[2][1] \notin cfg.proxy_allow_ips

\* C14: for a peer that proxy_allow_ips does not let in, a recognized PROXY
\* line ends parsing with ForbiddenProxyRequest, well-formed or not;
\* proxy_protocol_info is never set and InvalidProxyLine never raised for such
\* a peer.
C14_ForbiddenBeforeFields ==
    /\ [][(pc = "proxy" /\ PeerNotAllowed /\ PreambleCase) =>
            /\ pc' = "error"
            /\ err' = "ForbiddenProxyRequest"
            /\ err_arg' = peer_addr[2][1]
            /\ proxy_protocol_info' = None]_vars
    /\ [](PeerNotAllowed => proxy_protocol_info = None /\ err # "InvalidProxyLine")

\* a malformed PROXY line from a peer that is not let in
C14_Witness ==
    /\ err = "ForbiddenProxyRequest"
    /\ PeerNotAllowed
    /\ Len(SplitWS(line)) # 6

\* C18: once the Request is constructed, the bytes pushed back to the unreader
\* are the bytes pulled after the first blank line (the one that ends the
\* header block or follows the request line), in their order: with what the
\* peer still sends they are the bytes that follow the message.
C18_PushedBackIsTheRest ==
    pc = "done" =>
        /\ Find(pulled, CRLFCRLF) >= 0
        /\ pushed = Drop(pulled, Find(pulled, CRLFCRLF) + 4)
        /\ \E m \in Sources :
               /\ Find(m, CRLFCRLF) >= 0
               /\ pushed \o source = Drop(m, Find(m, CRLFCRLF) + 4)

\* the start of the next message pulled with a preamble, a request line and a
\* header field
C18_Witness ==
    /\ pc = "done"
    /\ pushed = SubSeq(NextMessage, 1, MaxPipelined)
    /\ headers # <<>>
    /\ proxy_protocol_info # None

====
